---- MODULE Spec2Model ----
(***************************************************************************)
(* Model of the frogger state transducer of src/index.ts: the State        *)
(* record, the pure functions torusWrap, moveBody, handleCollisions, tick  *)
(* and reduceState, and the event stream (gameClock merged with the key    *)
(* observables) that scan(reduceState, initialState) folds.                *)
(*                                                                         *)
(* Numbers.  Every coordinate, radius and velocity of the program is a     *)
(* multiple of 0.1, so the model stores them as integers in tenths of a    *)
(* pixel (Unit tenths = 1 pixel) and computes exactly; the squared         *)
(* distance is compared with the squared threshold instead of taking       *)
(* Math.sqrt.  Floating-point rounding of the 0.2 and 0.3 velocities is    *)
(* not modelled.                                                           *)
(***************************************************************************)
EXTENDS Integers, Sequences, FiniteSets, TLC

\* ------------------------------------------------------------- bounds ---
\* number of clock emissions (Tick events) the stream delivers
MaxElapsed == 2
\* how many 50-pixel steps past a field edge a Move may still take the frog
MaxOutside == 1
\* number of further clock emissions after the prefix of the late game
MaxLate == 2
\* number of times moveBody is applied to a body drawn from TestBodies
MaxSteps == 2

\* ---------------------------------------------------------- constants ---
Unit == 10

CanvasSize == 600
StartInstanceRadius == 20
StartInstanceCount == 3
StartRows == 3
StartTime == 0
ScorePoints == 500
NumberGoal == 5
FinalScorePoints == 1000

\* ---------------------------------------------------------------- Vec ---
Vec(x, y) == [x |-> x, y |-> y]
Zero == Vec(0, 0)
add(a, b) == Vec(a.x + b.x, a.y + b.y)
scale(a, k) == Vec(a.x * k, a.y * k)
sub(a, b) == add(a, scale(b, -1))
abs(v) == IF v < 0 THEN -1 * v ELSE v
\* len() < r for a threshold r > 0, without the square root: the squares are
\* only taken once both components are below r (TLC integers are 32-bit)
lenBelow(a, r) ==
    /\ abs(a.x) < r
    /\ abs(a.y) < r
    /\ a.x * a.x + a.y * a.y < r * r

\* ------------------------------------------------------- entity model ---
createCircle(viewType, oid, circ, vel) ==
    [id |-> viewType \o oid.id, createTime |-> oid.createTime,
     viewType |-> viewType, pos |-> circ.pos, radius |-> circ.radius,
     vel |-> vel, acc |-> Zero]
createCar(oid, circ, vel) == createCircle("car", oid, circ, vel)
createPlank(oid, circ, vel) == createCircle("plank", oid, circ, vel)
createGoose(oid, circ, vel) == createCircle("goose", oid, circ, vel)
createBird(oid, circ, vel) == createCircle("bird", oid, circ, vel)

createFrog ==
    [id |-> "frog", createTime |-> 0, viewType |-> "frog",
     pos |-> Vec((CanvasSize \div 2) * Unit, (CanvasSize - 50) * Unit),
     radius |-> 20 * Unit, vel |-> Zero, acc |-> Zero]

createRiver ==
    [id |-> "river", viewType |-> "river",
     pos |-> Vec((CanvasSize \div 2) * Unit, (CanvasSize - 50) * Unit),
     width |-> CanvasSize * Unit, height |-> (CanvasSize \div 4) * Unit,
     createTime |-> 0]

createGoal(i) ==
    [id |-> "goal" \o ToString(i), createTime |-> 0, viewType |-> "goal",
     pos |-> Vec(100 * (i + 1) * Unit, 50 * Unit),
     radius |-> 20 * Unit, vel |-> Zero, acc |-> Zero]

createFinalGoal(i) ==
    [id |-> "finalgoal" \o ToString(i), createTime |-> 0,
     viewType |-> "finalgoal",
     pos |-> Vec(300 * (i + 1) * Unit, 50 * Unit),
     radius |-> 20 * Unit, vel |-> Zero, acc |-> Zero]

\* v is the speed in tenths of a pixel per tick
speedDirections(v, d) == Vec(IF d = "left" THEN -1 * v ELSE v, 0)

\* the JavaScript arrays are 0-based: element k of a sequence is index k - 1
startCars ==
    [k \in 1..(StartInstanceCount * StartRows) |->
        LET i == k - 1 IN
        createCar([id |-> ToString(i), createTime |-> i],
                  [pos |-> IF i < StartRows * 1
                             THEN Vec(1000 * (i + 1) * Unit, (CanvasSize - 100) * Unit)
                             ELSE IF i < StartRows * 2
                             THEN Vec(1000 * (i + 1) * Unit, (CanvasSize - 150) * Unit)
                             ELSE Vec(1000 * (i + 1) * Unit, (CanvasSize - 200) * Unit),
                   radius |-> StartInstanceRadius * Unit],
                  IF i < StartRows * 1 THEN speedDirections(5, "right")
                  ELSE IF i < StartRows * 2 THEN speedDirections(10, "left")
                  ELSE speedDirections(2, "left"))]

startPlanks ==
    [k \in 1..(StartInstanceCount * StartRows) |->
        LET i == k - 1 IN
        createPlank([id |-> ToString(i), createTime |-> i],
                    [pos |-> IF i < StartRows * 1
                               THEN Vec(1000 * (i + 1) * Unit, 200 * Unit)
                               ELSE IF i < StartRows * 2
                               THEN Vec(1000 * (i + 1) * Unit, 250 * Unit)
                               ELSE Vec(1000 * (i + 1) * Unit, 300 * Unit),
                     radius |-> StartInstanceRadius * Unit],
                    IF i < StartRows * 1 THEN speedDirections(5, "left")
                    ELSE IF i < StartRows * 2 THEN speedDirections(10, "left")
                    ELSE speedDirections(3, "right"))]

startGeese ==
    [k \in 1..(StartInstanceCount * StartRows) |->
        LET i == k - 1 IN
        createGoose([id |-> ToString(i), createTime |-> i],
                    [pos |-> Vec(1000 * (i + 1) * Unit, 150 * Unit),
                     radius |-> StartInstanceRadius * Unit],
                    speedDirections(2, "right"))]

initialBirdsDirections ==
    [k \in 1..StartInstanceCount |->
        LET i == k - 1 IN Vec(5 - i * Unit, 5 - i * 2 * Unit)]

startBirds ==
    [k \in 1..StartInstanceCount |->
        LET i == k - 1 IN
        createBird([id |-> ToString(i), createTime |-> StartTime],
                   [pos |-> Zero, radius |-> StartInstanceRadius * Unit],
                   initialBirdsDirections[k])]

startGoal == [k \in 1..NumberGoal |-> createGoal(k - 1)]
startFinalGoal == [k \in 1..1 |-> createFinalGoal(k - 1)]

initialState ==
    [time |-> 0,
     frog |-> createFrog,
     cars |-> startCars,
     planks |-> startPlanks,
     geese |-> startGeese,
     birds |-> startBirds,
     river |-> createRiver,
     goals |-> startGoal,
     finalgoal |-> << >>,
     exit |-> << >>,
     objCount |-> StartInstanceCount,
     gameOver |-> FALSE,
     points |-> 0,
     highscore |-> 0]

\* --------------------------------------------------------- kinematics ---
\* mutant of wrap: the lower edge is not wrapped
wrapUpperOnly(v) ==
    LET s == CanvasSize * Unit IN
    IF v > s THEN v - s ELSE v

\* mutant of wrap: the upper edge is not wrapped
wrapLowerOnly(v) ==
    LET s == CanvasSize * Unit IN
    IF v < 0 THEN v + s ELSE v

wrap(v) ==
    LET s == CanvasSize * Unit IN
    IF v < 0 THEN v + s ELSE IF v > s THEN v - s ELSE v

torusWrap(p) == Vec(wrap(p.x), wrap(p.y))

moveBody(o) == [o EXCEPT !.pos = torusWrap(add(o.pos, o.vel)),
                         !.vel = add(o.vel, o.acc)]

\* Array.prototype.map with moveBody
mapMoveBody(a) == [k \in DOMAIN a |-> moveBody(a[k])]

\* ------------------------------------------------------------ utility ---
\* elem and except are only ever applied to the equality of cut, a.id ===
\* b.id, which is built in here
sameId(a, b) == a.id = b.id
elem(a, e) == \E k \in DOMAIN a : sameId(e, a[k])
except(a, b) == SelectSeq(a, LAMBDA x : ~ elem(b, x))

\* ------------------------------------------------- collisions & rules ---
\* mutant of bodiesCollided: the first body's radius is taken twice
bodiesCollidedOwnRadius(a, b) ==
    lenBelow(sub(a.pos, b.pos), a.radius + a.radius)

bodiesCollided(a, b) ==
    lenBelow(sub(a.pos, b.pos), a.radius + b.radius)

bodiesRide(a, b) ==
    lenBelow(sub(a.pos, b.pos), a.radius - 7 * Unit + b.radius)

\* mutant of cut: a pickup removes every goal
cutAll(a, b) == IF Len(b) > 0 THEN << >> ELSE a

\* mutant of cut: the `not` of except is lost, the collided goals are kept
cutKeeps(a, b) == SelectSeq(a, LAMBDA x : elem(b, x))

cut(a, b) == except(a, b)

frogCollided(s) ==
    \/ Len(SelectSeq(s.cars, LAMBDA r : bodiesCollided(s.frog, r))) > 0
    \/ Len(SelectSeq(s.birds, LAMBDA r : bodiesCollided(s.frog, r))) > 0

frogRides(s) ==
    \/ Len(SelectSeq(s.planks, LAMBDA r : bodiesRide(s.frog, r))) > 0
    \/ Len(SelectSeq(s.geese, LAMBDA r : bodiesRide(s.frog, r))) > 0

riddenPlank(s) == SelectSeq(s.planks, LAMBDA r : bodiesCollided(s.frog, r))
riddenGoose(s) == SelectSeq(s.geese, LAMBDA r : bodiesRide(s.frog, r))

frogOutside(s) ==
    s.frog.pos.x <= 0 \/ s.frog.pos.x >= CanvasSize * Unit

\* mutant of frogInRiver: the banks belong to the river
frogInRiverInclusive(s) ==
    s.frog.pos.y <= 350 * Unit /\ s.frog.pos.y >= 100 * Unit

frogInRiver(s) == s.frog.pos.y < 350 * Unit /\ s.frog.pos.y > 100 * Unit

frogInRiverAndPlank(s) ==
    IF frogRides(s) THEN ~ frogInRiver(s) ELSE frogInRiver(s)

goalsCollide(s) == SelectSeq(s.goals, LAMBDA r : bodiesRide(s.frog, r))
finalGoalsCollide(s) ==
    SelectSeq(s.finalgoal, LAMBDA r : bodiesRide(s.frog, r))
\* mutant of scorePoint: a point is scored whether or not a goal is touched
scorePointAlways(s) == Len(goalsCollide(s)) >= 0

scorePoint(s) == Len(goalsCollide(s)) > 0

\* handleCollisions with two of its choices left open: the sign given to a
\* ridden goose's velocity and whether a pickup sends the frog to the start
rulesVariant(s, gooseSign, resets) ==
    LET rides == frogRides(s)
        plank == riddenPlank(s)
        goose == riddenGoose(s)
        goalsHit == goalsCollide(s)
        finalHit == finalGoalsCollide(s)
        score == scorePoint(s)
    IN
    [s EXCEPT
       !.gameOver = frogCollided(s) \/ frogOutside(s) \/ frogInRiverAndPlank(s),
       !.frog =
          IF ~ score /\ ~ (Len(finalHit) > 0)
          THEN [s.frog EXCEPT !.vel =
                  IF rides /\ Len(goose) > 0
                  THEN Vec(gooseSign * goose[1].vel.x, 0)
                  ELSE IF rides /\ Len(plank) > 0
                  THEN Vec(plank[1].vel.x, 0)
                  ELSE Zero]
          ELSE IF resets
          THEN [s.frog EXCEPT !.pos =
                  Vec((CanvasSize \div 2) * Unit, (CanvasSize - 50) * Unit)]
          ELSE s.frog,
       !.goals = cut(s.goals, goalsHit),
       !.exit = s.exit \o goalsHit,
       !.points =
          IF score THEN s.points + ScorePoints
          ELSE IF Len(finalHit) > 0
          THEN s.points + FinalScorePoints
          ELSE s.points]

\* mutant of handleCollisions: the goose's velocity is not negated
handleCollisionsSameSign(s) == rulesVariant(s, 1, TRUE)

\* mutant of handleCollisions: a pickup leaves the frog where it is
handleCollisionsNoReset(s) == rulesVariant(s, -1, FALSE)

handleCollisions(s) ==
    LET rides == frogRides(s)
        plank == riddenPlank(s)
        goose == riddenGoose(s)
        goalsHit == goalsCollide(s)
        finalHit == finalGoalsCollide(s)
        score == scorePoint(s)
    IN
    [s EXCEPT
       !.gameOver = frogCollided(s) \/ frogOutside(s) \/ frogInRiverAndPlank(s),
       !.frog =
          IF ~ score /\ ~ (Len(finalHit) > 0)
          THEN [s.frog EXCEPT !.vel =
                  IF rides /\ Len(goose) > 0
                  THEN Vec(-1 * goose[1].vel.x, 0)
                  ELSE IF rides /\ Len(plank) > 0
                  THEN Vec(plank[1].vel.x, 0)
                  ELSE Zero]
          ELSE [s.frog EXCEPT !.pos =
                  Vec((CanvasSize \div 2) * Unit, (CanvasSize - 50) * Unit)],
       !.goals = cut(s.goals, goalsHit),
       !.exit = s.exit \o goalsHit,
       !.points =
          IF score THEN s.points + ScorePoints
          ELSE IF Len(finalHit) > 0
          THEN s.points + FinalScorePoints
          ELSE s.points]

\* ---------------------------------------------------------------- tick ---
\* mutant of advance: the bonus goal is spawned with one goal left
advanceSpawnsEarly(s, elapsed) ==
    [s EXCEPT
       !.frog = moveBody(s.frog),
       !.cars = mapMoveBody(s.cars),
       !.planks = mapMoveBody(s.planks),
       !.geese = mapMoveBody(s.geese),
       !.birds = IF Len(s.goals) <= 0 THEN mapMoveBody(s.birds)
                 ELSE s.birds,
       !.finalgoal = IF Len(s.goals) <= 1 THEN startFinalGoal ELSE << >>,
       !.time = elapsed]

\* mutant of advance: the birds are never advanced
advanceBirdsAsleep(s, elapsed) ==
    [s EXCEPT
       !.frog = moveBody(s.frog),
       !.cars = mapMoveBody(s.cars),
       !.planks = mapMoveBody(s.planks),
       !.geese = mapMoveBody(s.geese),
       !.finalgoal = IF Len(s.goals) <= 0 THEN startFinalGoal ELSE << >>,
       !.time = elapsed]

\* mutant of advance: the birds fly from the first tick
advanceBirdsAwake(s, elapsed) ==
    [s EXCEPT
       !.frog = moveBody(s.frog),
       !.cars = mapMoveBody(s.cars),
       !.planks = mapMoveBody(s.planks),
       !.geese = mapMoveBody(s.geese),
       !.birds = mapMoveBody(s.birds),
       !.finalgoal = IF Len(s.goals) <= 0 THEN startFinalGoal ELSE << >>,
       !.time = elapsed]

\* mutant of advance: the frog is not advanced
advanceFrogStays(s, elapsed) ==
    [s EXCEPT
       !.cars = mapMoveBody(s.cars),
       !.planks = mapMoveBody(s.planks),
       !.geese = mapMoveBody(s.geese),
       !.birds = IF Len(s.goals) <= 0 THEN mapMoveBody(s.birds)
                 ELSE s.birds,
       !.finalgoal = IF Len(s.goals) <= 0 THEN startFinalGoal ELSE << >>,
       !.time = elapsed]

\* the argument tick hands to handleCollisions when the game is not over
advance(s, elapsed) ==
    [s EXCEPT
       !.frog = moveBody(s.frog),
       !.cars = mapMoveBody(s.cars),
       !.planks = mapMoveBody(s.planks),
       !.geese = mapMoveBody(s.geese),
       !.birds = IF Len(s.goals) <= 0 THEN mapMoveBody(s.birds)
                 ELSE s.birds,
       !.finalgoal = IF Len(s.goals) <= 0 THEN startFinalGoal ELSE << >>,
       !.time = elapsed]

\* mutant of tick: a finished game keeps moving
tickAlwaysAdvances(s, elapsed) == handleCollisions(advance(s, elapsed))

tick(s, elapsed) ==
    IF s.gameOver
    THEN handleCollisions(s)
    ELSE handleCollisions(advance(s, elapsed))

\* ----------------------------------------------------- state transducer ---
Tick(elapsed) == [kind |-> "Tick", elapsed |-> elapsed]
Move(direction) == [kind |-> "Move", direction |-> direction]
Restart == [kind |-> "Restart"]
Jump == [kind |-> "Jump"]

\* e.elapsed: a Move that falls through to tick carries no such property
undefined == "undefined"
elapsedOf(e) == IF e.kind = "Tick" THEN e.elapsed ELSE undefined

\* mutant of movePos: a step down is not stopped at the bottom row
movePosDownUnclamped(s, direction) ==
    IF direction = "right"
    THEN Vec(IF s.frog.pos.x = (CanvasSize - 50) * Unit
             THEN (CanvasSize - 50) * Unit
             ELSE s.frog.pos.x + 50 * Unit,
             s.frog.pos.y)
    ELSE IF direction = "left"
    THEN Vec(IF s.frog.pos.x = 50 * Unit THEN 50 * Unit
             ELSE s.frog.pos.x - 50 * Unit,
             s.frog.pos.y)
    ELSE IF direction = "up"
    THEN Vec(s.frog.pos.x,
             IF s.frog.pos.y = 50 * Unit THEN 50 * Unit
             ELSE s.frog.pos.y - 50 * Unit)
    ELSE Vec(s.frog.pos.x, s.frog.pos.y + 50 * Unit)

movePos(s, direction) ==
    IF direction = "right"
    THEN Vec(IF s.frog.pos.x = (CanvasSize - 50) * Unit
             THEN (CanvasSize - 50) * Unit
             ELSE s.frog.pos.x + 50 * Unit,
             s.frog.pos.y)
    ELSE IF direction = "left"
    THEN Vec(IF s.frog.pos.x = 50 * Unit THEN 50 * Unit
             ELSE s.frog.pos.x - 50 * Unit,
             s.frog.pos.y)
    ELSE IF direction = "up"
    THEN Vec(s.frog.pos.x,
             IF s.frog.pos.y = 50 * Unit THEN 50 * Unit
             ELSE s.frog.pos.y - 50 * Unit)
    ELSE Vec(s.frog.pos.x,
             IF s.frog.pos.y = (CanvasSize - 50) * Unit
             THEN (CanvasSize - 50) * Unit
             ELSE s.frog.pos.y + 50 * Unit)

\* mutant of jumpPos: the jump is not stopped at the top row
jumpPosNoClamp(s) == Vec(s.frog.pos.x, s.frog.pos.y - 100 * Unit)

jumpPos(s) ==
    Vec(s.frog.pos.x,
        IF s.frog.pos.y <= 100 * Unit THEN 50 * Unit
        ELSE s.frog.pos.y - 100 * Unit)

\* mutant of restartState: the departed entities are carried over
restartKeepsExit(s) ==
    [initialState EXCEPT
       !.highscore = IF s.points > s.highscore THEN s.points ELSE s.highscore,
       !.exit = s.exit]

\* mutant of restartState: the last score replaces the high score
restartTakesPoints(s) ==
    [initialState EXCEPT !.highscore = s.points, !.exit = s.finalgoal]

restartState(s) ==
    [initialState EXCEPT
       !.highscore = IF s.points > s.highscore THEN s.points ELSE s.highscore,
       !.exit = s.finalgoal]

reduceState(s, e) ==
    IF e.kind = "Move" /\ ~ s.gameOver
    THEN [s EXCEPT !.frog = [s.frog EXCEPT !.pos = movePos(s, e.direction)]]
    ELSE IF e.kind = "Restart"
    THEN restartState(s)
    ELSE IF e.kind = "Jump"
    THEN [s EXCEPT !.frog = [s.frog EXCEPT !.pos = jumpPos(s)]]
    ELSE tick(s, elapsedOf(e))

\* -------------------------------------------------------- event stream ---
\* state : the accumulator of scan(reduceState, initialState)
\* clock : the next value interval(10) emits
VARIABLES state, clock

vars == <<state, clock>>

Directions == {"up", "down", "left", "right"}

\* what the key observables can emit
Keys == {Move(d) : d \in Directions} \cup {Jump, Restart}

Init ==
    /\ state = initialState
    /\ clock = 0

Fold(e) == state' = reduceState(state, e)

\* Moves are only followed while the frog stays within MaxOutside steps of
\* the field (the code itself puts no bound on x off the 50-pixel grid)
InRange(p) ==
    /\ p.x >= - MaxOutside * 50 * Unit
    /\ p.x <= (CanvasSize + MaxOutside * 50) * Unit

gameClock ==
    /\ clock < MaxElapsed
    /\ Fold(Tick(clock))
    /\ clock' = clock + 1

moveKey ==
    \E d \in Directions :
       /\ InRange(reduceState(state, Move(d)).frog.pos)
       /\ Fold(Move(d))
       /\ UNCHANGED clock

jump ==
    /\ Fold(Jump)
    /\ UNCHANGED clock

restart ==
    /\ Fold(Restart)
    /\ UNCHANGED clock

Next == gameClock \/ moveKey \/ jump \/ restart

Spec == Init /\ [][Next]_vars

\* ------------------------------------------------------- the late game ---
\* The stream prefix that collects goal2, goal1, goal0 and goal3, one per
\* tick: the frog is taken to the goal row between two ticks and is sent
\* back to the start by the pickup.
RECURSIVE repeat(_, _)
repeat(e, n) == IF n = 0 THEN << >> ELSE <<e>> \o repeat(e, n - 1)

LatePrefix ==
    repeat(Jump, 5) \o <<Tick(0)>> \o
    repeat(Move("left"), 2) \o repeat(Jump, 5) \o <<Tick(1)>> \o
    repeat(Move("left"), 4) \o repeat(Jump, 5) \o <<Tick(2)>> \o
    repeat(Move("right"), 2) \o repeat(Jump, 5) \o <<Tick(3)>>

RECURSIVE scan(_, _)
scan(s, es) == IF es = << >> THEN s ELSE scan(reduceState(s, Head(es)), Tail(es))

LateState == scan(initialState, LatePrefix)
LateClock == Len(SelectSeq(LatePrefix, LAMBDA e : e.kind = "Tick"))

InitLate ==
    /\ state = LateState
    /\ clock = LateClock

gameClockLate ==
    /\ clock < LateClock + MaxLate
    /\ Fold(Tick(clock))
    /\ clock' = clock + 1

NextLate == gameClockLate \/ moveKey \/ jump \/ restart

SpecLate == InitLate /\ [][NextLate]_vars

\* ------------------------------------------------- bodies on their own ---
\* moveBody and bodiesCollided as pure functions: `state` holds a pair of
\* bodies [a, b] drawn from bounded sets, and each step advances a.
TestX == {0, 1, 300, CanvasSize - 1, CanvasSize}
TestY == {0, 300, CanvasSize}
TestVelX == {-(CanvasSize * Unit - 10), -50, 0, 50, CanvasSize * Unit - 10,
             CanvasSize * Unit + 10}
TestVelY == {-(CanvasSize * Unit - 10), 0, CanvasSize * Unit - 10}
TestRadius == {10, StartInstanceRadius}

TestBodies ==
    {createCar([id |-> "0", createTime |-> 0],
               [pos |-> Vec(x * Unit, y * Unit), radius |-> r * Unit],
               Vec(vx, vy)) :
        x \in TestX, y \in TestY, vx \in TestVelX, vy \in TestVelY,
        r \in TestRadius}

OtherBodies ==
    {createBird([id |-> "1", createTime |-> 0],
                [pos |-> Vec(x * Unit, 300 * Unit), radius |-> r * Unit],
                Zero) :
        x \in {25, 329, 330, 339, 340}, r \in {StartInstanceRadius, 30}}

InitBodies ==
    /\ state \in {[a |-> a, b |-> b] : a \in TestBodies, b \in OtherBodies}
    /\ clock = 0

moveOne ==
    /\ clock < MaxSteps
    /\ state' = [state EXCEPT !.a = moveBody(state.a)]
    /\ clock' = clock + 1

NextBodies == moveOne

SpecBodies == InitBodies /\ [][NextBodies]_vars

\* ============================================================== claims ===
\* Every claim about "the next state" is stated on reduceState itself: for
\* the reachable accumulator `state` and each event e the stream can
\* deliver next, reduceState(state, e) is the state the fold produces.
Events == Keys \cup {Tick(clock)}

\* the state whose positions the rule engine of the next Tick evaluates
TickInput == IF state.gameOver THEN state ELSE advance(state, clock)

AfterTick == reduceState(state, Tick(clock))

FieldMax == CanvasSize * Unit
InField(p) == p.x >= 0 /\ p.x <= FieldMax /\ p.y >= 0 /\ p.y <= FieldMax

\* C1 - Loss stability: once gameOver is true, every state produced by a
\* later Tick has gameOver = true until a Restart (Move and Jump keep the
\* flag, so it is enough that a Tick on a game-over state keeps it).
C1_LossStable == state.gameOver => AfterTick.gameOver

\* C2 - A Move processed in a state with gameOver = true is ignored: the
\* resulting state equals the input state in every field.
C2_MoveIgnored ==
    state.gameOver => \A d \in Directions : reduceState(state, Move(d)) = state

\* C3 - While gameOver is true the frog's position is held by every event
\* other than Restart (Tick, Move in any direction, Jump).
C3_PositionHeld ==
    state.gameOver =>
       \A e \in Events \ {Restart} :
          reduceState(state, e).frog.pos = state.frog.pos

\* C4 - Move is clamped at the field boundaries: in a state with gameOver =
\* false, Move(right) yields x <= fieldSize - 50, Move(left) x >= 50,
\* Move(up) y >= 50 and Move(down) y <= fieldSize - 50, also when riding has
\* taken the frog off the 50-pixel grid.
C4_MoveClamped ==
    ~ state.gameOver =>
       /\ reduceState(state, Move("right")).frog.pos.x <= (CanvasSize - 50) * Unit
       /\ reduceState(state, Move("left")).frog.pos.x >= 50 * Unit
       /\ reduceState(state, Move("up")).frog.pos.y >= 50 * Unit
       /\ reduceState(state, Move("down")).frog.pos.y <= (CanvasSize - 50) * Unit

\* C5 - Restart reset: the state after Restart has gameOver = false, points
\* = 0, highscore = max(points, highscore) of the state before, time = 0,
\* frog, cars, planks, geese, birds and goals as constructed, finalgoal
\* empty and exit equal to the finalgoal of the state before.
C5_RestartReset ==
    LET n == reduceState(state, Restart) IN
    /\ n.gameOver = FALSE
    /\ n.points = 0
    /\ n.highscore >= state.points
    /\ n.highscore >= state.highscore
    /\ n.highscore \in {state.points, state.highscore}
    /\ n.time = 0
    /\ n.frog = createFrog
    /\ n.cars = startCars
    /\ n.planks = startPlanks
    /\ n.geese = startGeese
    /\ n.birds = startBirds
    /\ n.goals = startGoal
    /\ n.finalgoal = << >>
    /\ n.exit = state.finalgoal

\* a Restart has acted on a state that held the bonus goal and a new high
\* score: only Restart puts the bonus goal into exit
C5_Witness ==
    /\ state.exit = startFinalGoal
    /\ state.highscore > 0
    /\ state.points = 0
    /\ state.cars = startCars

\* C6 - highscore never decreases under any event, and only Restart
\* changes it.
C6_HighscoreMonotone ==
    \A e \in Events :
       LET n == reduceState(state, e) IN
       /\ n.highscore >= state.highscore
       /\ (e # Restart => n.highscore = state.highscore)

\* a high score carried by a Restart has since been kept by a Tick, and a
\* further Restart would have to keep it against the lower score
C6_Witness ==
    /\ state.highscore > 0
    /\ state.time > 0
    /\ state.points < state.highscore

\* C7 - Pickup monotonicity: no event other than Restart makes goals
\* longer, and a Tick whose rule engine finds the frog within ride distance
\* of a goal makes goals shorter by exactly one.
C7_PickupMonotone ==
    LET in == TickInput
        n == AfterTick
        near == \E k \in DOMAIN in.goals : bodiesRide(in.frog, in.goals[k])
    IN
    /\ \A e \in Keys \ {Restart} :
          Len(reduceState(state, e).goals) <= Len(state.goals)
    /\ Len(n.goals) <= Len(state.goals)
    /\ near => Len(n.goals) = Len(state.goals) - 1
    /\ ~ near => Len(n.goals) = Len(state.goals)

\* the frog stands on a goal while two goals are already gone: the next
\* Tick is a pickup
C7_Witness ==
    /\ Len(state.goals) = NumberGoal - 2
    /\ Len(state.exit) = 2
    /\ LET in == TickInput IN
       \E k \in DOMAIN in.goals : bodiesRide(in.frog, in.goals[k])

\* C8 - finalgoal holds at most one entity and is non-empty only if goals
\* is empty.
C8_BonusOnlyWhenCleared ==
    /\ Len(state.finalgoal) <= 1
    /\ (state.finalgoal # << >> => state.goals = << >>)

\* the bonus goal has been spawned after the fifth pickup
C8_Witness ==
    /\ Len(state.finalgoal) = 1
    /\ state.goals = << >>
    /\ Len(state.exit) = NumberGoal

\* C9 - Full clear spawns bonus: with goals empty the next Tick yields a
\* non-empty finalgoal, and each Tick of a state that is not game over
\* advances every bird by its velocity; while a goal is left the birds are
\* where they were constructed and a Tick does not move them.
C9_FullClearSpawnsBonus ==
    LET n == AfterTick IN
    /\ state.goals = << >> => n.finalgoal # << >>
    /\ (state.goals = << >> /\ ~ state.gameOver) =>
          \A k \in DOMAIN state.birds :
             /\ n.birds[k].pos =
                   torusWrap(add(state.birds[k].pos, state.birds[k].vel))
             /\ n.birds[k].pos # state.birds[k].pos
    /\ state.goals # << >> =>
          /\ state.birds = startBirds
          /\ n.birds = state.birds

\* the Tick after the full clear has acted: the bonus goal is there and the
\* birds have left their start
C9_Witness ==
    /\ state.goals = << >>
    /\ state.finalgoal # << >>
    /\ ~ state.gameOver
    /\ \A k \in DOMAIN state.birds : state.birds[k].pos # startBirds[k].pos

\* the bodies a Tick of `state` advances, before and after the Tick
Advanced(s) ==
    {<<"cars", k>> : k \in DOMAIN s.cars}
       \cup {<<"planks", k>> : k \in DOMAIN s.planks}
       \cup {<<"geese", k>> : k \in DOMAIN s.geese}
       \cup (IF Len(s.goals) <= 0 THEN {<<"birds", k>> : k \in DOMAIN s.birds}
             ELSE {})
BodyAt(s, b) == s[b[1]][b[2]]

\* C10 (as claimed) - after every Tick that advances kinematics, every car,
\* plank, goose and advanced bird has both coordinates inside [0, fieldSize].
C10_AllInField ==
    ~ state.gameOver =>
       LET n == AfterTick IN
       \A b \in Advanced(state) : InField(BodyAt(n, b).pos)

\* C10 (amended) - after every Tick that advances kinematics, every car,
\* plank, goose and advanced bird that was inside [0, fieldSize] before the
\* Tick has both coordinates inside [0, fieldSize].
C10_InFieldStaysInField ==
    ~ state.gameOver =>
       LET n == AfterTick IN
       \A b \in Advanced(state) :
          InField(BodyAt(state, b).pos) => InField(BodyAt(n, b).pos)

\* a bird whose advance left the field below 0 has been wrapped to the far
\* edge
C10_Witness ==
    \E k \in DOMAIN state.birds :
       /\ add(startBirds[k].pos, startBirds[k].vel).x < 0
       /\ state.birds[k].pos = torusWrap(add(startBirds[k].pos, startBirds[k].vel))
       /\ InField(state.birds[k].pos)

\* velocity components of magnitude below fieldSize
SlowerThanField(v) == abs(v.x) < FieldMax /\ abs(v.y) < FieldMax

\* C11 - Wraparound: a body whose coordinates are inside [0, fieldSize] and
\* whose velocity components are below fieldSize in magnitude is moved by
\* moveBody to coordinates inside [0, fieldSize]; x = fieldSize - 1 with
\* velocity +5 ends at x = 4.
C11_MoveBodyStaysInField ==
    LET o == state.a
        n == moveBody(o)
    IN
    /\ (InField(o.pos) /\ SlowerThanField(o.vel)) => InField(n.pos)
    /\ (o.pos.x = (CanvasSize - 1) * Unit /\ o.vel.x = 5 * Unit)
          => n.pos.x = 4 * Unit

\* moveBody has taken a body from x = fieldSize - 1 at velocity +5 across
\* the edge to x = 4
C11_Witness ==
    /\ clock = 1
    /\ state.a.pos.x = 4 * Unit
    /\ state.a.vel.x = 5 * Unit

\* C12 - Collision symmetry: bodiesCollided([a, b]) equals
\* bodiesCollided([b, a]) for any two bodies.
C12_CollisionSymmetric ==
    bodiesCollided(state.a, state.b) = bodiesCollided(state.b, state.a)

\* two bodies of different radii collide only because the radii are summed:
\* they are further apart than twice the smaller radius
C12_Witness ==
    /\ bodiesCollided(state.a, state.b)
    /\ state.a.radius < state.b.radius
    /\ ~ lenBelow(sub(state.a.pos, state.b.pos), 2 * state.a.radius)
    /\ clock > 0

\* the rule engine's tests, stated on a state s whose bodies have been
\* advanced: the indices of the bodies the frog touches
Within(s, coll) == {k \in DOMAIN s[coll] : bodiesCollided(s.frog, s[coll][k])}
Riding(s, coll) == {k \in DOMAIN s[coll] : bodiesRide(s.frog, s[coll][k])}
Pickup(s) == Riding(s, "goals") # {} \/ Riding(s, "finalgoal") # {}

\* C13 - Loss determination: after a Tick gameOver equals collided OR
\* outOfBounds OR (inHazardBand AND NOT riding) on the positions after the
\* Tick's advance; riding a plank or goose never by itself causes a loss.
C13_LossDetermination ==
    LET in == TickInput
        n == AfterTick
        collided == Within(in, "cars") # {} \/ Within(in, "birds") # {}
        outOfBounds == in.frog.pos.x <= 0 \/ in.frog.pos.x >= FieldMax
        inHazardBand == 100 * Unit < in.frog.pos.y /\ in.frog.pos.y < 350 * Unit
        riding == Riding(in, "planks") # {} \/ Riding(in, "geese") # {}
    IN
    /\ n.gameOver = (collided \/ outOfBounds \/ (inHazardBand /\ ~ riding))
    /\ (riding /\ ~ collided /\ ~ outOfBounds) => ~ n.gameOver

\* a Tick has found the frog in the river on a plank and has not ended the
\* game
C13_Witness ==
    /\ ~ state.gameOver
    /\ state.frog.vel # Zero
    /\ state.time = clock - 1
    /\ 100 * Unit < state.frog.pos.y /\ state.frog.pos.y < 350 * Unit
    /\ Riding(state, "planks") # {}

\* C14 - Agent velocity resolution: after a Tick without pickup the frog's
\* velocity is the negated x-velocity of a goose it rides if there is one,
\* otherwise the x-velocity of a plank it rides if there is one, and zero
\* otherwise.
C14_VelocityResolution ==
    LET in == TickInput
        n == AfterTick
        G == Riding(in, "geese")
        P == Riding(in, "planks")
    IN
    ~ Pickup(in) =>
       IF G # {}
       THEN \E k \in G : n.frog.vel = Vec(-1 * in.geese[k].vel.x, 0)
       ELSE IF P # {}
       THEN \E k \in P : n.frog.vel = Vec(in.planks[k].vel.x, 0)
       ELSE n.frog.vel = Zero

\* a Tick has found the frog on a goose drifting right and has given it the
\* opposite velocity
C14_Witness ==
    /\ ~ state.gameOver
    /\ state.time = clock - 1
    /\ \E k \in Riding(state, "geese") :
          /\ state.geese[k].vel.x > 0
          /\ state.frog.vel = Vec(-1 * state.geese[k].vel.x, 0)

\* C15 - Ride transfer: a Tick that finds the frog within ride distance of
\* a plank moving at v (and no pickup) yields frog velocity v; if that state
\* is not game over, another Tick puts the frog at the wrapped value of its
\* position plus v.
C15_RideTransfer ==
    LET in == TickInput
        P == Riding(in, "planks")
    IN
    (P # {} /\ ~ Pickup(in)) =>
       LET n == AfterTick IN
       \E k \in P :
          /\ n.frog.vel = in.planks[k].vel
          /\ ~ n.gameOver =>
                reduceState(n, Tick(clock + 1)).frog.pos =
                   torusWrap(add(n.frog.pos, in.planks[k].vel))

\* the frog has been carried off the 50-pixel grid by the plank it rides
C15_Witness ==
    /\ ~ state.gameOver
    /\ state.time = clock - 1
    /\ state.frog.pos.x % (50 * Unit) # 0
    /\ \E k \in Riding(state, "planks") : state.frog.vel = state.planks[k].vel

\* C16 - Scoring: a Tick adds exactly 500 when the frog rides a regular goal
\* (and moves that goal from goals to exit), exactly 1000 when it rides the
\* bonus goal and no regular goal, and 0 otherwise; the two pickups never
\* coincide, and points decreases only to 0 on Restart.
C16_Scoring ==
    LET in == TickInput
        n == AfterTick
        R == Riding(in, "goals")
        B == Riding(in, "finalgoal")
    IN
    /\ ~ (R # {} /\ B # {})
    /\ n.points - state.points =
          IF R # {} THEN 500 ELSE IF B # {} THEN 1000 ELSE 0
    /\ \A k \in R :
          /\ \E j \in DOMAIN n.exit : n.exit[j] = in.goals[k]
          /\ \A j \in DOMAIN n.goals : n.goals[j] # in.goals[k]
    /\ \A e \in Keys :
          LET m == reduceState(state, e) IN
          \/ m.points >= state.points
          \/ e = Restart /\ m.points = 0

\* all five goals and then the bonus goal have been picked up
C16_Witness ==
    /\ state.points = 5 * 500 + 1000
    /\ state.goals = << >>

\* the frog's position after advance, or held when the game is over
FrogAdvanced ==
    IF state.gameOver THEN state.frog.pos
    ELSE torusWrap(add(state.frog.pos, state.frog.vel))

\* C17 - Pickup reset: a Tick with a goal or bonus-goal pickup leaves the
\* frog at (fieldSize / 2, fieldSize - 50); a Tick without pickup leaves it at
\* its advanced, or when the game is over its held, position.
C17_PickupReset ==
    LET in == TickInput
        n == AfterTick
    IN
    n.frog.pos = IF Pickup(in)
                 THEN Vec((600 \div 2) * Unit, (600 - 50) * Unit)
                 ELSE FrogAdvanced

\* the Tick at LateClock has picked up the last goal and the frog has not
\* moved since
C17_Witness ==
    /\ Len(state.exit) = 5
    /\ state.time = LateClock
    /\ state.frog.pos = Vec(300 * Unit, 550 * Unit)

\* C18 - Dormant fliers: while goals is non-empty every bird is at its
\* initial position with its initial velocity, a Tick leaves it there, and
\* the frog does not collide with a bird.
C18_DormantFliers ==
    Len(state.goals) > 0 =>
       LET in == TickInput IN
       /\ state.birds = startBirds
       /\ in.birds = startBirds
       /\ Within(state, "birds") = {}
       /\ Within(in, "birds") = {}

\* goals remain, a Tick has acted, and the frog is in the corner next to
\* the birds
C18_Witness ==
    /\ Len(state.goals) > 0
    /\ state.time = clock - 1
    /\ clock > LateClock
    /\ ~ state.gameOver
    /\ state.frog.pos = Vec(50 * Unit, 50 * Unit)

\* C19 - A Tick in a state with gameOver = TRUE advances no body: cars,
\* planks, geese, birds and finalgoal are unchanged and time is not
\* re-stamped.
C19_FrozenWhenOver ==
    state.gameOver =>
       LET n == AfterTick IN
       /\ n.cars = state.cars
       /\ n.planks = state.planks
       /\ n.geese = state.geese
       /\ n.birds = state.birds
       /\ n.finalgoal = state.finalgoal
       /\ n.time = state.time

\* a Tick has been processed after the game ended: the clock has run on and
\* the state's time has not
C19_Witness ==
    /\ state.gameOver
    /\ state.time < clock - 1

\* C20 - Jump changes only the frog's position: y becomes y - 100, or 50
\* when y <= 100, x is unchanged and so is every other field.
C20_JumpFrame ==
    LET n == reduceState(state, Jump)
        y == state.frog.pos.y
    IN
    n = [state EXCEPT
           !.frog = [state.frog EXCEPT
                       !.pos = Vec(state.frog.pos.x,
                                   IF y <= 100 * Unit THEN 50 * Unit
                                   ELSE y - 100 * Unit)]]

\* the frog has jumped off a plank to y = 100, still carrying the velocity
\* the last Tick gave it
C20_Witness ==
    /\ state.frog.pos.y = 100 * Unit
    /\ state.frog.vel # Zero

\* C21 - No points are awarded while the game is over: in a state with
\* gameOver = TRUE every event other than Restart leaves points and goals
\* as they are.
C21_NoPointsWhenOver ==
    state.gameOver =>
       \A e \in Events \ {Restart} :
          LET n == reduceState(state, e) IN
          /\ n.points = state.points
          /\ n.goals = state.goals

\* C22 - In every reachable state the frog's y coordinate is one of 50,
\* 100, ..., fieldSize - 50; consequently the frog is within ride distance
\* of a plank or goose only inside the river band.
C22_FrogOnRows ==
    /\ \E k \in 1 .. (600 \div 50 - 1) : state.frog.pos.y = 50 * k * Unit
    /\ (Riding(state, "planks") # {} \/ Riding(state, "geese") # {}) =>
          (100 * Unit < state.frog.pos.y /\ state.frog.pos.y < 350 * Unit)

\* the frog has been carried sideways by a ride and has then gone up to the
\* top row
C22_Witness ==
    /\ state.frog.pos.y = 50 * Unit
    /\ state.frog.pos.x % (50 * Unit) # 0

\* C23 - Goal conservation: in every reachable state each of the 5 initial
\* goals is in exactly one of goals and exit, the number of goals plus the
\* number of goal-kind entities in exit is 5, and the identifiers within
\* goals are pairwise distinct.
C23_GoalConservation ==
    LET inGoals(g) == \E k \in DOMAIN state.goals : state.goals[k] = g
        inExit(g) == \E k \in DOMAIN state.exit : state.exit[k] = g
        goalsInExit ==
           {k \in DOMAIN state.exit : state.exit[k].viewType = "goal"}
    IN
    /\ \A i \in DOMAIN startGoal :
          inGoals(startGoal[i]) # inExit(startGoal[i])
    /\ Len(state.goals) + Cardinality(goalsInExit) = 5
    /\ \A j, k \in DOMAIN state.goals :
          j # k => state.goals[j].id # state.goals[k].id

\* a Restart after the full clear: the five goals are back in goals and
\* exit holds the bonus goal, which is not of goal kind
C23_Witness ==
    /\ Len(state.goals) = 5
    /\ Len(state.exit) = 1
    /\ state.exit[1].viewType # "goal"

====
